---- MODULE Spec2Model ----
(***************************************************************************)
(* Model of the space-weather index merge routines of methods/sw:          *)
(* combine_kp (3-hourly Kp from the standard, recent and forecast          *)
(* Instruments) and combine_f107 (daily F10.7 from the standard and        *)
(* forecast Instruments).                                                  *)
(*                                                                         *)
(* Time is an integer.  For combine_kp one unit is 3 hours, so             *)
(* pds.DateOffset(hours=3) is 1 and pds.DateOffset(days=1) is KpDay = 8.   *)
(* For combine_f107 one unit is a day, so pds.DateOffset(days=1) is 1.     *)
(* A data set (the resident data of an Instrument, the content of a file)  *)
(* is a set of records [t, v] with one record per time stamp; its index is *)
(* the time stamps in increasing order.                                    *)
(*                                                                         *)
(* The pysat Instrument, pandas and numpy are libraries outside the        *)
(* repository; each of their calls is modelled at its call site by what    *)
(* the call does: load(date=) makes the data of that day resident,         *)
(* load(fname=) the content of that file, files.files[a:b] is the label    *)
(* slice (both ends included) of the file list, calc_freq is the smallest  *)
(* difference of consecutive times, date_range the arithmetic sequence,    *)
(* resample(freq).fillna(method=None) the reindexing onto the regular grid *)
(* spanned by the data.                                                    *)
(*                                                                         *)
(* The other routines have a specification each, after the properties of   *)
(* the merge: SpecTwice (the merge called twice), SpecAp (calc_daily_Ap),  *)
(* SpecClean (demeter_iap.clean), SpecDecode (load_experiment_data of      *)
(* demeter_iap) and SpecFiles (list_files and load of sw_f107).            *)
(***************************************************************************)
EXTENDS Integers, Sequences, FiniteSets, TLC

VARIABLES
    fn,         \* which routine was called: "kp" or "f107" for the merge
    std,        \* standard_inst  (a source record, or NoSource for None)
    rec,        \* recent_inst    (combine_kp only)
    fc,         \* forecast_inst
    args,       \* the call's arguments as passed: start, stop, residents
    start,      \* start, after the derivation from the Instruments
    stop,       \* stop, after the derivation from the Instruments
    fill_val,   \* output fill value (argument of combine_kp, local of combine_f107)
    pc,         \* position; of the merge: "validate", "sweep", "pad", "save", "done", "raised", "overrun"
    err,        \* the exception raised, "" when none
    inst_flag,  \* the active source: "standard", "recent", "forecast", "none"
    mid,        \* TRUE inside a loop iteration, after an earlier branch of it ran
    itime,      \* the sweep cursor
    times,      \* kp_times / f107_times
    values,     \* kp_values / f107_values
    freq,       \* the inferred cadence
    date_range, \* the canonical axis
    iters,      \* number of loop iterations begun
    loads,      \* number of load calls made on the sources
    out,        \* the returned series: sequence of [t, v]
    notes,      \* the provenance text, as the sequence of the pieces appended
    tag,        \* tag of the returned Instrument, as its parts between '_'
    meta,       \* the Meta object the returned Instrument holds
    meta_notes, \* the notes each Meta object holds for the data column
    extend_times, \* the times put before and after the accumulated ones
    previous,   \* the series an earlier call with the same arguments returned
    ap_inst,    \* calc_daily_Ap: the Instrument, its data columns and metadata
    calls,      \* calc_daily_Ap: number of calls made on ap_inst
    iap,        \* demeter_iap.clean: the Instrument, its clean_level and rows
    experiment, \* load_experiment_data: the chunk read and the locals built from it
    f107_files  \* sw_f107: the monthly files, the list of list_files, load's locals

vars == <<fn, std, rec, fc, args, start, stop, fill_val, pc, err, inst_flag,
          mid, itime, times, values, freq, date_range, iters, loads, out,
          notes, tag, meta, meta_notes, extend_times, previous,
          ap_inst, calls, iap, experiment, f107_files>>

\* the variables of the other routines
otherVars == <<ap_inst, calls, iap, experiment, f107_files>>

\* the value of a variable that the routine called does not use
Unused == <<>>

-----------------------------------------------------------------------------
(* Python values *)

\* None, for a time argument
NoneT == -1

\* numpy.nan
NaN == -99

\* None, for the local fill_val of combine_f107 before it is set
NoneV == -98

\* pds.DateOffset(hours=3), in units of 3 hours
KpStep == 1

\* pds.DateOffset(days=1), in units of 3 hours
KpDay == 8

\* pds.DateOffset(days=1), in units of a day
F107Day == 1

\* a != b on floats: nan differs from everything, itself included
Neq(a, b) == IF a = NaN \/ b = NaN THEN TRUE ELSE a # b

\* numpy.isfinite
IsFinite(x) == x # NaN

-----------------------------------------------------------------------------
(* Bounds of the model *)

\* sweep iterations after which a run is cut off as not terminating
MaxIter == 10

-----------------------------------------------------------------------------
(* Data sets *)

Min(S) == CHOOSE x \in S : \A y \in S : x <= y
Max(S) == CHOOSE x \in S : \A y \in S : x >= y
Abs(x) == IF x < 0 THEN -x ELSE x

TimesOf(D) == {r.t : r \in D}

RECURSIVE SortedSeq(_)
\* the records of data set D in increasing time order
SortedSeq(D) ==
    IF D = {} THEN <<>>
    ELSE LET m == CHOOSE r \in D : \A q \in D : r.t <= q.t
         IN  <<m>> \o SortedSeq(D \ {m})

\* list(inst.index)
IndexOf(D) == LET s == SortedSeq(D) IN [i \in 1..Len(s) |-> s[i].t]

\* list(inst['Kp']), list(inst['f107'])
ColumnOf(D) == LET s == SortedSeq(D) IN [i \in 1..Len(s) |-> s[i].v]

Last(s) == s[Len(s)]

\* the Instrument argument None
NoSource == [present |-> FALSE, tag |-> "", fill |-> NaN, disk |-> {},
             files |-> {}, data |-> {}]

\* the sources passed to the call that are not None, in priority order
AllInst == SelectSeq(<<std, rec, fc>>, LAMBDA x : x.present)

\* [inst.index.min() for inst in all_inst if len(inst.index) > 0] and the .max() list
ResidentTimes(insts) ==
    UNION {TimesOf(insts[i].data) : i \in 1..Len(insts)}

-----------------------------------------------------------------------------
(* The standard sources' load by date *)

\* standard_inst.load(date=itime) of the Kp Instrument: the data of the day
\* that holds itime becomes resident (none when that day has no file)
LoadDateKp(src, d) == {r \in src.disk : r.t \div KpDay = d \div KpDay}

\* standard_inst.load(date=itime) of the F10.7 Instrument: tag '' selects the
\* rows of the day from the monthly file, tag 'all' returns the whole file.
\* The tag 'daily', for which combine_f107 loads itime + 30 days, is not among
\* the tags of the F10.7 Instrument (sw_f107.tags), so that branch is not taken.
LoadDateF107(src, d) ==
    IF src.tag = "all" THEN src.disk
    ELSE {r \in src.disk : r.t >= d /\ r.t < d + F107Day}

-----------------------------------------------------------------------------
(* The provenance notes, the tag and the Meta objects *)

\* pds.DateOffset(days=1) in the time unit of the routine called
DayOffset == IF fn = "kp" THEN KpDay ELSE F107Day

\* itime.date(): the day a time lies in
DateOf(t) == t \div DayOffset

\* a piece of the notes string: kind "head" is "Combines data from", "open" is
\* " the <name> source (<date> to ", "close" is "<date>)", "tail" is
\* ", in that order"
Piece(kind, name, date) == [kind |-> kind, name |-> name, date |-> date]

\* notes = "Combines data from"
NotesHead == <<Piece("head", "", NoneT)>>

\* if notes.find(name) < 0: notes += " the {:} source ({:} to ".format(name, itime.date())
Opening(n, name, t) ==
    IF \E i \in 1..Len(n) : n[i].name = name THEN n
    ELSE Append(n, Piece("open", name, DateOf(t)))

\* notes += "{:})".format(itime.date())
Closing(n, t) == Append(n, Piece("close", "", DateOf(t)))

\* notes += ", in that order"
NotesTail == <<Piece("tail", "", NoneT)>>

\* the notes a source's own Meta object holds before the call
SourceNotes == <<Piece("source", "", NoneT)>>

\* the Meta objects: the one made for the returned Instrument and the sources' own
MetaObjects == {"fresh", "standard", "recent", "forecast"}

\* the tag with a source left out: '_recent' is never added
TagKpNoRecent ==
    <<"combined">> \o (IF std.present THEN <<"standard">> ELSE <<>>)
                  \o (IF fc.present THEN <<"forecast">> ELSE <<>>)

\* combine_kp: tag = 'combined', then '_standard', '_recent', '_forecast' are
\* added for the Instruments that are not None
TagKp ==
    <<"combined">> \o (IF std.present THEN <<"standard">> ELSE <<>>)
                  \o (IF rec.present THEN <<"recent">> ELSE <<>>)
                  \o (IF fc.present THEN <<"forecast">> ELSE <<>>)

\* combine_f107: stag is the standard tag, 'default' when it is empty, and
\* tag = 'combined_{:s}_{:s}'.format(stag, forecast_inst.tag)
TagF107 ==
    <<"combined", IF Len(std.tag) > 0 THEN std.tag ELSE "default", fc.tag>>

-----------------------------------------------------------------------------
(* Argument validation and the derivation of the window *)

\* len(all_inst) < 2
TooFewKp(insts) == Len(insts) < 2

\* start as derived when the argument is None
DeriveStart(a, insts) ==
    IF a # NoneT THEN a
    ELSE IF ResidentTimes(insts) = {} THEN NoneT
    ELSE Min(ResidentTimes(insts))

\* combine_kp: stop = max(stimes) if len(stimes) > 0 else None, then
\* stop += pds.DateOffset(days=1), which is a TypeError on None
DeriveStopKp(a, insts) ==
    IF a # NoneT THEN [err |-> "", stop |-> a]
    ELSE IF ResidentTimes(insts) = {} THEN [err |-> "TypeError", stop |-> NoneT]
    ELSE [err |-> "", stop |-> Max(ResidentTimes(insts)) + KpDay]

\* combine_f107: stop = max(stimes) + pds.DateOffset(days=1) if len(stimes) > 0 else None
DeriveStopF107(a, insts) ==
    IF a # NoneT THEN a
    ELSE IF ResidentTimes(insts) = {} THEN NoneT
    ELSE Max(ResidentTimes(insts)) + F107Day

\* start is None or stop is None
NoWindow(s, e) == s = NoneT \/ e = NoneT

\* the range test with > for >=: a window of a single instant passes
EmptyRangeStrict(s, e) == s > e

\* combine_f107: start >= stop
EmptyRange(s, e) == s >= e

\* the first source that is not None
FirstFlag ==
    IF std.present THEN "standard"
    ELSE IF rec.present THEN "recent"
    ELSE IF fc.present THEN "forecast"
    ELSE "none"

Raise(e) ==
    /\ pc' = "raised"
    /\ err' = e

\* combine_kp, up to the start of the sweep
ValidateKp ==
    /\ UNCHANGED <<previous, otherVars>>
    /\ pc = "validate"
    /\ fn = "kp"
    /\ LET s == DeriveStart(args.start, AllInst)
           e == DeriveStopKp(args.stop, AllInst)
       IN  IF TooFewKp(AllInst)
           THEN /\ Raise("ValueError:sources")
                /\ UNCHANGED <<start, stop, itime, inst_flag, notes, tag, meta>>
           ELSE IF e.err # ""
           THEN /\ Raise(e.err)
                /\ UNCHANGED <<start, stop, itime, inst_flag, notes, tag, meta>>
           ELSE IF NoWindow(s, e.stop)
           THEN /\ Raise("ValueError:window")
                /\ UNCHANGED <<start, stop, itime, inst_flag, notes, tag, meta>>
           ELSE /\ start' = s
                /\ stop' = e.stop
                /\ itime' = s
                /\ inst_flag' = FirstFlag
                /\ notes' = NotesHead
                /\ tag' = TagKp
                /\ meta' = "fresh"
                /\ pc' = "sweep"
                /\ err' = ""
    /\ UNCHANGED <<fn, std, rec, fc, args, fill_val, mid, times, values, freq,
                   date_range, iters, loads, out, meta_notes, extend_times>>

\* combine_f107 with the first load of the standard source made before the
\* window is tested instead of after
ValidateF107AfterLoad ==
    /\ UNCHANGED <<previous, otherVars>>
    /\ pc = "validate"
    /\ fn = "f107"
    /\ LET s == DeriveStart(args.start, <<std, fc>>)
           e == DeriveStopF107(args.stop, <<std, fc>>)
       IN  IF ~std.present \/ ~fc.present
           THEN /\ Raise("AttributeError")
                /\ UNCHANGED <<start, stop, itime, inst_flag, notes, tag, meta, std, loads>>
           ELSE IF NoWindow(s, e)
           THEN /\ Raise("ValueError:window")
                /\ UNCHANGED <<start, stop, itime, inst_flag, notes, tag, meta, std, loads>>
           ELSE /\ std' = [std EXCEPT !.data = LoadDateF107(std, s)]
                /\ loads' = loads + 1
                /\ start' = s
                /\ stop' = e
                /\ IF EmptyRange(s, e)
                   THEN /\ Raise("ValueError:range")
                        /\ UNCHANGED <<itime, inst_flag, notes, tag, meta>>
                   ELSE /\ itime' = s
                        /\ inst_flag' = "standard"
                        /\ notes' = NotesHead
                        /\ tag' = TagF107
                        /\ meta' = "fresh"
                        /\ pc' = "sweep"
                        /\ err' = ""
    /\ UNCHANGED <<fn, rec, fc, args, fill_val, mid, times, values, freq,
                   date_range, iters, out, meta_notes, extend_times>>

\* combine_f107, up to the start of the sweep; standard_inst.tag and
\* forecast_inst.tag are read first, an AttributeError on None
ValidateF107 ==
    /\ UNCHANGED <<previous, otherVars>>
    /\ pc = "validate"
    /\ fn = "f107"
    /\ LET s == DeriveStart(args.start, <<std, fc>>)
           e == DeriveStopF107(args.stop, <<std, fc>>)
       IN  IF ~std.present \/ ~fc.present
           THEN /\ Raise("AttributeError")
                /\ UNCHANGED <<start, stop, itime, inst_flag, notes, tag, meta>>
           ELSE IF NoWindow(s, e)
           THEN /\ Raise("ValueError:window")
                /\ UNCHANGED <<start, stop, itime, inst_flag, notes, tag, meta>>
           ELSE IF EmptyRange(s, e)
           THEN /\ Raise("ValueError:range")
                /\ start' = s
                /\ stop' = e
                /\ UNCHANGED <<itime, inst_flag, notes, tag, meta>>
           ELSE /\ start' = s
                /\ stop' = e
                /\ itime' = s
                /\ inst_flag' = "standard"
                /\ notes' = NotesHead
                /\ tag' = TagF107
                /\ meta' = "fresh"
                /\ pc' = "sweep"
                /\ err' = ""
    /\ UNCHANGED <<fn, std, rec, fc, args, fill_val, mid, times, values, freq,
                   date_range, iters, loads, out, meta_notes, extend_times>>

-----------------------------------------------------------------------------
(* The sources' load calls *)

\* the pseudo file None of files = [None]: no load, the resident data is used
NoFile == [date |-> NoneT, data |-> {}]

RECURSIVE FilesByDate(_)
FilesByDate(F) ==
    IF F = {} THEN <<>>
    ELSE LET m == CHOOSE f \in F : \A g \in F : f.date <= g.date
         IN  <<m>> \o FilesByDate(F \ {m})

\* np.unique(inst.files.files[itime:stop]) when nothing is resident, else [None]
FilesToLoad(src, a, b) ==
    IF src.data = {}
    THEN FilesByDate({f \in src.files : a <= f.date /\ f.date <= b})
    ELSE <<NoFile>>

\* the selection without its lower end: rows before the cursor pass as well
GoodRowsNoCursor(D, a, b, fillv) ==
    {r \in D : r.t < b /\ Neq(r.v, fillv)}

\* good_times and good_vals: the rows of D in [a, b) whose value differs from fillv
GoodRows(D, a, b, fillv) ==
    {r \in D : r.t >= a /\ r.t < b /\ Neq(r.v, fillv)}

RECURSIVE FileSweep(_, _, _, _, _)
\* for filename in files: load, select, extend, itime = times[-1] + step;
\* times[-1] of an empty list is an IndexError
FileSweep(fs, fillv, b, step, acc) ==
    IF fs = <<>> \/ acc.err # "" THEN acc
    ELSE LET f    == Head(fs)
             data == IF f = NoFile THEN acc.data ELSE f.data
             good == GoodRows(data, acc.itime, b, fillv)
             t2   == acc.times \o IndexOf(good)
             v2   == acc.values \o ColumnOf(good)
             n2   == IF f = NoFile THEN acc.loads ELSE acc.loads + 1
         IN  IF t2 = <<>>
             THEN [acc EXCEPT !.err = "IndexError", !.data = data, !.loads = n2]
             ELSE FileSweep(Tail(fs), fillv, b, step,
                            [data |-> data, times |-> t2, values |-> v2,
                             itime |-> Last(t2) + step, err |-> "", loads |-> n2])

SweepAcc(src) ==
    [data |-> src.data, times |-> times, values |-> values, itime |-> itime,
     err |-> "", loads |-> loads]

-----------------------------------------------------------------------------
(* The sweep of combine_kp *)

\* while itime < stop and inst_flag is not None
LoopCond == itime < stop /\ inst_flag # "none"

\* a branch of the loop body is reached: at the loop head when the loop
\* condition holds, or further down an iteration already begun
AtBranch(flag) ==
    /\ pc = "sweep"
    /\ inst_flag = flag
    /\ mid \/ (LoopCond /\ iters < MaxIter)

Begun == IF mid THEN iters ELSE iters + 1

\* if inst_flag == 'standard' of combine_kp
StandardKp ==
    /\ UNCHANGED <<previous, otherVars>>
    /\ fn = "kp"
    /\ AtBranch("standard")
    /\ LET d == LoadDateKp(std, itime)
           n == Opening(notes, "standard", itime)
       IN  /\ std' = [std EXCEPT !.data = d]
           /\ loads' = loads + 1
           /\ IF d = {}
              THEN /\ inst_flag' = IF ~rec.present THEN "forecast" ELSE "recent"
                   /\ notes' = Closing(n, itime)
                   /\ mid' = TRUE
                   /\ UNCHANGED <<times, values, itime>>
              ELSE /\ times' = times \o IndexOf(d)
                   /\ values' = values \o ColumnOf(d)
                   /\ itime' = Last(times') + KpStep
                   /\ notes' = n
                   /\ mid' = FALSE
                   /\ UNCHANGED inst_flag
    /\ iters' = Begun
    /\ UNCHANGED <<fn, rec, fc, args, start, stop, fill_val, pc, err, freq,
                   date_range, out, tag, meta, meta_notes, extend_times>>

\* if inst_flag == 'recent' of combine_kp
RecentKp ==
    /\ UNCHANGED <<previous, otherVars>>
    /\ fn = "kp"
    /\ AtBranch("recent")
    /\ LET fs == FilesToLoad(rec, itime, stop)
           r  == FileSweep(fs, rec.fill, stop, KpStep, SweepAcc(rec))
           n  == IF fs = <<>> THEN notes ELSE Opening(notes, "recent", itime)
       IN  /\ rec' = [rec EXCEPT !.data = r.data]
           /\ loads' = r.loads
           /\ times' = r.times
           /\ values' = r.values
           /\ itime' = r.itime
           /\ IF r.err # ""
              THEN Raise(r.err) /\ notes' = n /\ UNCHANGED <<inst_flag, mid>>
              ELSE /\ inst_flag' = IF fc.present THEN "forecast" ELSE "none"
                   /\ notes' = Closing(n, r.itime)
                   /\ mid' = fc.present
                   /\ UNCHANGED <<pc, err>>
    /\ iters' = Begun
    /\ UNCHANGED <<fn, std, fc, args, start, stop, fill_val, freq, date_range, out,
                   tag, meta, meta_notes, extend_times>>

\* if inst_flag == "forecast" of combine_kp
ForecastKp ==
    /\ UNCHANGED <<previous, otherVars>>
    /\ fn = "kp"
    /\ AtBranch("forecast")
    /\ LET fs == FilesToLoad(fc, itime, stop)
           r  == FileSweep(fs, fc.fill, stop, KpStep, SweepAcc(fc))
           n  == IF fs = <<>> THEN notes ELSE Opening(notes, "forecast", itime)
       IN  /\ fc' = [fc EXCEPT !.data = r.data]
           /\ loads' = r.loads
           /\ times' = r.times
           /\ values' = r.values
           /\ itime' = r.itime
           /\ IF r.err # ""
              THEN Raise(r.err) /\ notes' = n /\ UNCHANGED <<inst_flag, mid>>
              ELSE /\ inst_flag' = "none"
                   /\ notes' = Closing(n, r.itime)
                   /\ mid' = FALSE
                   /\ UNCHANGED <<pc, err>>
    /\ iters' = Begun
    /\ UNCHANGED <<fn, std, rec, args, start, stop, fill_val, freq, date_range, out,
                   tag, meta, meta_notes, extend_times>>

-----------------------------------------------------------------------------
(* The sweep of combine_f107 *)

\* not np.any(standard_inst.index == itime): the load is needed
NeedsLoad(src, t) == t \notin TimesOf(src.data)

\* if inst_flag == 'standard' of combine_f107
StandardF107 ==
    /\ UNCHANGED <<previous, otherVars>>
    /\ fn = "f107"
    /\ AtBranch("standard")
    /\ LET d    == IF NeedsLoad(std, itime) THEN LoadDateF107(std, itime) ELSE std.data
           inwin == {r \in d : r.t >= itime /\ r.t < stop}
           fv   == IF fill_val = NoneV THEN std.fill ELSE fill_val
           good == GoodRows(d, itime, stop, fv)
           t2   == times \o IndexOf(good)
           n    == Opening(notes, "standard", itime)
       IN  /\ std' = [std EXCEPT !.data = d]
           /\ loads' = IF NeedsLoad(std, itime) THEN loads + 1 ELSE loads
           /\ IF inwin = {}
              THEN /\ inst_flag' = "forecast"
                   /\ notes' = Closing(n, itime)
                   /\ mid' = TRUE
                   /\ UNCHANGED <<times, values, itime, fill_val, meta, pc, err>>
              ELSE /\ fill_val' = fv
                   /\ meta' = IF fill_val = NoneV THEN "standard" ELSE meta
                   /\ times' = t2
                   /\ values' = values \o ColumnOf(good)
                   /\ notes' = n
                   /\ UNCHANGED <<inst_flag, mid>>
                   /\ IF t2 = <<>>
                      THEN Raise("IndexError") /\ UNCHANGED itime
                      ELSE itime' = Last(t2) + F107Day /\ UNCHANGED <<pc, err>>
    /\ iters' = Begun
    /\ UNCHANGED <<fn, rec, fc, args, start, stop, freq, date_range, out, tag,
                   meta_notes, extend_times>>

\* if inst_flag == "forecast" of combine_f107
ForecastF107 ==
    /\ UNCHANGED <<previous, otherVars>>
    /\ fn = "f107"
    /\ AtBranch("forecast")
    /\ LET fs == FilesToLoad(fc, itime, stop)
           fv == IF fill_val = NoneV THEN fc.fill ELSE fill_val
           r  == FileSweep(fs, fv, stop, F107Day, SweepAcc(fc))
           n  == IF fs = <<>> THEN notes ELSE Opening(notes, "forecast", itime)
       IN  /\ fc' = [fc EXCEPT !.data = r.data]
           /\ loads' = r.loads
           /\ times' = r.times
           /\ values' = r.values
           /\ itime' = r.itime
           /\ fill_val' = IF fs = <<>> THEN fill_val ELSE fv
           /\ meta' = IF fs # <<>> /\ fill_val = NoneV THEN "forecast" ELSE meta
           /\ IF r.err # ""
              THEN Raise(r.err) /\ notes' = n /\ UNCHANGED <<inst_flag, mid>>
              ELSE /\ inst_flag' = "none"
                   /\ notes' = Closing(n, r.itime)
                   /\ mid' = FALSE
                   /\ UNCHANGED <<pc, err>>
    /\ iters' = Begun
    /\ UNCHANGED <<fn, std, rec, args, start, stop, freq, date_range, out, tag,
                   meta_notes, extend_times>>

\* the loop condition is false: the segment of a source still active is
\* closed (if inst_flag is not None) and control passes to the padding
LoopExit ==
    /\ UNCHANGED <<previous, otherVars>>
    /\ pc = "sweep"
    /\ ~mid
    /\ ~LoopCond
    /\ notes' = IF inst_flag # "none" THEN Closing(notes, itime) ELSE notes
    /\ pc' = "pad"
    /\ UNCHANGED <<fn, std, rec, fc, args, start, stop, fill_val, err, inst_flag,
                   mid, itime, times, values, freq, date_range, iters, loads, out,
                   tag, meta, meta_notes, extend_times>>

\* the loop is still running after MaxIter iterations: the run is cut off
Overrun ==
    /\ UNCHANGED <<previous, otherVars>>
    /\ pc = "sweep"
    /\ ~mid
    /\ LoopCond
    /\ iters >= MaxIter
    /\ pc' = "overrun"
    /\ UNCHANGED <<fn, std, rec, fc, args, start, stop, fill_val, err, inst_flag,
                   mid, itime, times, values, freq, date_range, iters, loads, out,
                   notes, tag, meta, meta_notes, extend_times>>

-----------------------------------------------------------------------------
(* After the sweep: cadence, canonical axis, padding, resampling *)

\* pysat.utils.calc_freq: the smallest difference of consecutive times
\* (0 stands for the ValueError it raises on fewer than two times)
calc_freq(ts) ==
    IF Len(ts) < 2 THEN 0
    ELSE Min({ts[i + 1] - ts[i] : i \in 1..(Len(ts) - 1)})

\* pds.date_range(start=a, end=b, freq=f), f > 0
DateRange(a, b, f) ==
    IF b < a THEN <<>>
    ELSE [i \in 1..((b - a) \div f + 1) |-> a + (i - 1) * f]

\* abs(date_range - t).argmin(): the first position (from 0) nearest to t
ArgMin(dr, t) ==
    Min({i \in 0..(Len(dr) - 1) :
            \A j \in 0..(Len(dr) - 1) : Abs(dr[i + 1] - t) <= Abs(dr[j + 1] - t)})

\* date_range[:itime], the times put before the first accumulated time
LeftPad(dr, ts) ==
    IF dr[1] < ts[1] THEN SubSeq(dr, 1, ArgMin(dr, ts[1])) ELSE <<>>

\* the slice taken from the nearest position itself, without the + 1, and
\* also when the axis ends at the last accumulated time
RightPadFromNearest(dr, ts) ==
    IF Last(dr) >= Last(ts) THEN SubSeq(dr, ArgMin(dr, Last(ts)) + 1, Len(dr)) ELSE <<>>

\* date_range[itime:], the times put after the last accumulated time
RightPad(dr, ts) ==
    IF Last(dr) > Last(ts) THEN SubSeq(dr, ArgMin(dr, Last(ts)) + 2, Len(dr)) ELSE <<>>

Fills(n) == [i \in 1..n |-> fill_val]

\* calc_freq, date_range and the two padding steps
Pad ==
    /\ UNCHANGED <<previous, otherVars>>
    /\ pc = "pad"
    /\ LET f  == calc_freq(times)
           dr == DateRange(start, stop - DayOffset, f)
       IN  IF f <= 0
           THEN /\ Raise("ValueError:freq")
                /\ UNCHANGED <<times, values, freq, date_range, extend_times>>
           ELSE IF dr = <<>>
           THEN /\ Raise("IndexError")
                /\ freq' = f
                /\ date_range' = dr
                /\ UNCHANGED <<times, values, extend_times>>
           ELSE LET l == LeftPad(dr, times)
                    r == RightPad(dr, times)
                IN  /\ times' = l \o times \o r
                    /\ values' = Fills(Len(l)) \o values \o Fills(Len(r))
                    /\ extend_times' = [left |-> l, right |-> r]
                    /\ freq' = f
                    /\ date_range' = dr
                    /\ pc' = "save"
                    /\ UNCHANGED err
    /\ UNCHANGED <<fn, std, rec, fc, args, start, stop, fill_val, inst_flag, mid,
                   itime, iters, loads, out, notes, tag, meta, meta_notes>>

Zip(ts, vs) == [i \in 1..Len(ts) |-> [t |-> ts[i], v |-> vs[i]]]

Range(s) == {s[i] : i \in 1..Len(s)}

RECURSIVE PadValue(_, _)
\* the value of the latest row of rows at or before time t, nan when none
PadValue(rows, t) ==
    IF rows = {} THEN NaN
    ELSE LET m == CHOOSE r \in rows : \A q \in rows : q.t <= r.t
         IN  IF m.t <= t THEN m.v ELSE PadValue(rows \ {m}, t)

\* the resampling with method='pad': a missing slot takes the value before it
ResamplePad(rows, f) ==
    LET ts   == {rows[i].t : i \in 1..Len(rows)}
        grid == DateRange(Min(ts), Max(ts), f)
    IN  [i \in 1..Len(grid) |->
            [t |-> grid[i], v |-> PadValue({rows[j] : j \in 1..Len(rows)}, grid[i])]]

\* the first bin edge of resample(freq): the earliest time, moved back onto
\* the multiples of freq counted from the midnight of its day
FirstBin(m, f) == m - ((m % DayOffset) % f)

\* data.resample(freq).fillna(method=None): the rows reindexed onto the
\* regular grid from the first bin to the latest time, nan where no row is
Resample(rows, f) ==
    LET ts   == {rows[i].t : i \in 1..Len(rows)}
        grid == DateRange(FirstBin(Min(ts), f), Max(ts), f)
    IN  [i \in 1..Len(grid) |->
            [t |-> grid[i],
             v |-> IF grid[i] \in ts
                   THEN (CHOOSE r \in Range(rows) : r.t = grid[i]).v
                   ELSE NaN]]

\* data[np.isnan(data)] = fill_val, done if np.isfinite(fill_val)
FillNaN(rows) ==
    IF IsFinite(fill_val)
    THEN [i \in 1..Len(rows) |->
             IF rows[i].v = NaN THEN [rows[i] EXCEPT !.v = fill_val] ELSE rows[i]]
    ELSE rows

\* the test with its second operand left out: only the shapes are compared
ShapeDiffers(dr, ts) == Len(dr) # Len(ts)

\* date_range.shape != index.shape or abs(date_range - index).max() > 0
NeedsResample(dr, ts) == dr # ts

\* meta.__setitem__(column, {meta.notes_label: notes}): the Meta object the
\* returned Instrument holds takes the notes
SetNotes(n) == [meta_notes EXCEPT ![meta] = n]

\* the DataFrame, the resampling when the index is not the canonical axis, the
\* notes written to the metadata, return
Save ==
    /\ UNCHANGED <<previous, otherVars>>
    /\ pc = "save"
    /\ IF ~NeedsResample(date_range, times)
       THEN /\ out' = Zip(times, values)
            /\ notes' = notes \o NotesTail
            /\ meta_notes' = SetNotes(notes')
            /\ pc' = "done"
            /\ UNCHANGED err
       ELSE IF Cardinality(Range(times)) # Len(times)
       THEN Raise("ValueError:reindex") /\ UNCHANGED <<out, notes, meta_notes>>
       ELSE /\ out' = FillNaN(Resample(Zip(times, values), freq))
            /\ notes' = notes \o NotesTail
            /\ meta_notes' = SetNotes(notes')
            /\ pc' = "done"
            /\ UNCHANGED err
    /\ UNCHANGED <<fn, std, rec, fc, args, start, stop, fill_val, inst_flag, mid,
                   itime, times, values, freq, date_range, iters, loads, tag, meta,
                   extend_times>>

-----------------------------------------------------------------------------
(* The calls explored: sources, their files and resident data, the window *)

\* the value source number id holds at time t; it names its source and its time
Val(id, t) == id * 100 + t

\* rows at the times T, the ones at the times F holding the fill value fv
Rows(id, T, F, fv) == {[t |-> t, v |-> IF t \in F THEN fv ELSE Val(id, t)] : t \in T}

Source(tg, fv, disk, files, data) ==
    [present |-> TRUE, tag |-> tg, fill |-> fv, disk |-> disk, files |-> files,
     data |-> data]

\* a day of standard Kp that starts at time b: no file, all eight samples,
\* the samples up to 12:00 only, all eight with a fill value at 06:00
KpDayRows(b) ==
    {{}, Rows(1, b..(b + 7), {}, -1), Rows(1, b..(b + 4), {}, -1),
     Rows(1, b..(b + 7), {b + 2}, -1)}

\* a standard Kp source and what a load of day 0 leaves resident in it
KpLoaded(src, pre) ==
    IF pre THEN [src EXCEPT !.data = LoadDateKp(src, 0)] ELSE src

\* standard Kp: two days of files, nothing resident or the first day loaded
KpStandard ==
    {NoSource} \cup
    {KpLoaded(Source("", -1, d0 \cup d1, {}, {}), pre) :
        d0 \in KpDayRows(0), d1 \in KpDayRows(KpDay), pre \in BOOLEAN}

\* the file lists of a recent or forecast Kp source, files named by their date
KpFiles(id, fv) ==
    { {},
      {[date |-> 8, data |-> Rows(id, 6..13, {9}, fv)]},
      {[date |-> 0, data |-> Rows(id, 0..7, {}, fv)],
       [date |-> 8, data |-> Rows(id, 8..15, {}, fv)]},
      {[date |-> 0, data |-> Rows(id, 0..15, {12}, fv)]} }

\* a recent or forecast source: nothing resident, or one of its files resident
FileSources(tg, fv, filesets) ==
    {NoSource} \cup
    {Source(tg, fv, {}, F, {}) : F \in filesets} \cup
    {Source(tg, fv, {}, F, f.data) : F \in filesets, f \in UNION filesets}

KpRecent == {x \in FileSources("recent", -1, KpFiles(2, -1)) :
                x.data = {} \/ \E f \in x.files : f.data = x.data}

KpForecast == {x \in FileSources("forecast", NaN, KpFiles(3, NaN)) :
                x.data = {} \/ \E f \in x.files : f.data = x.data}

\* start, stop and fill_val of the combine_kp calls
KpWindows ==
    {[start |-> NoneT, stop |-> NoneT, fill_val |-> NaN],
     [start |-> 0, stop |-> 16, fill_val |-> NaN],
     [start |-> 0, stop |-> 16, fill_val |-> 0],
     [start |-> 3, stop |-> 16, fill_val |-> NaN],
     [start |-> 0, stop |-> 12, fill_val |-> 0],
     [start |-> 0, stop |-> 8, fill_val |-> NaN],
     [start |-> 8, stop |-> 8, fill_val |-> NaN],
     [start |-> 0, stop |-> NoneT, fill_val |-> NaN],
     [start |-> NoneT, stop |-> 16, fill_val |-> 0]}

\* the 3-hourly times of the days a up to b, b left out
DaySlots(a, b) == (a * KpDay)..(b * KpDay - 1)

\* the three-source call, day 0 being Jan 1: the standard source holds
\* [Jan 1, Jan 10), with nothing, its first day or all of it resident
ScenarioStandard ==
    LET disk == Rows(1, DaySlots(0, 9), {}, -1)
    IN  {Source("", -1, disk, {}, res) :
            res \in {{}, {r \in disk : r.t \in DaySlots(0, 1)}, disk}}

\* the recent source holds [Jan 8, Jan 12), in one file or in a file a day,
\* with nothing or one of its files resident
ScenarioRecent ==
    LET whole == {[date |-> 7 * KpDay, data |-> Rows(2, DaySlots(7, 11), {}, -1)]}
        daily == {[date |-> d * KpDay, data |-> Rows(2, DaySlots(d, d + 1), {}, -1)] :
                     d \in 7..10}
    IN  UNION {{Source("recent", -1, {}, F, res) : res \in {{}} \cup {f.data : f \in F}} :
                  F \in {whole, daily}}

\* the forecast source holds [Jan 11, Jan 14) in one file, resident or not
ScenarioForecast ==
    LET file == [date |-> 10 * KpDay, data |-> Rows(3, DaySlots(10, 13), {}, NaN)]
    IN  {Source("forecast", NaN, {}, {file}, res) : res \in {{}, file.data}}

\* a standard F10.7 source and what a load of day 0 leaves resident in it
F107Loaded(src, pre) ==
    IF pre THEN [src EXCEPT !.data = LoadDateF107(src, 0)] ELSE src

\* standard F10.7, tag '' or 'all': a file of daily values, nothing resident
\* or the first day loaded
F107Standard ==
    {NoSource} \cup
    {F107Loaded(Source(tg, fv, Rows(1, T, F, fv), {}, {}), pre) :
        tg \in {"", "all"}, fv \in {NaN, -1}, T \in SUBSET (0..3),
        F \in {{}, {1}}, pre \in BOOLEAN}

\* the file lists of the forecast F10.7 source: each file holds three days
F107Files(fv) ==
    { {},
      {[date |-> 1, data |-> Rows(3, 2..4, {}, fv)]},
      {[date |-> 0, data |-> Rows(3, 1..3, {2}, fv)],
       [date |-> 2, data |-> Rows(3, 3..5, {}, fv)]} }

F107Forecast == {x \in FileSources("forecast", -1, F107Files(-1)) :
                    x.data = {} \/ \E f \in x.files : f.data = x.data}

\* start and stop of the combine_f107 calls
F107Windows ==
    {[start |-> NoneT, stop |-> NoneT], [start |-> 0, stop |-> 4],
     [start |-> 0, stop |-> 5], [start |-> 1, stop |-> 4],
     [start |-> 2, stop |-> 2], [start |-> 3, stop |-> 1],
     [start |-> 0, stop |-> NoneT], [start |-> 4, stop |-> NoneT],
     [start |-> NoneT, stop |-> 3]}

Init ==
    /\ fn \in {"kp", "f107"}
    /\ IF fn = "kp"
       THEN \/ /\ std \in KpStandard
               /\ rec \in KpRecent
               /\ fc \in KpForecast
               /\ \E w \in KpWindows :
                     /\ args = [start |-> w.start, stop |-> w.stop,
                                std |-> std.data, rec |-> rec.data, fc |-> fc.data]
                     /\ fill_val = w.fill_val
            \/ /\ std \in ScenarioStandard
               /\ rec \in ScenarioRecent
               /\ fc \in ScenarioForecast
               /\ args = [start |-> NoneT, stop |-> NoneT,
                          std |-> std.data, rec |-> rec.data, fc |-> fc.data]
               /\ fill_val = NaN
       ELSE /\ std \in F107Standard
            /\ rec = NoSource
            /\ fc \in F107Forecast
            /\ \E w \in F107Windows :
                  args = [start |-> w.start, stop |-> w.stop,
                          std |-> std.data, rec |-> {}, fc |-> fc.data]
            /\ fill_val = NoneV
    /\ start = NoneT
    /\ stop = NoneT
    /\ pc = "validate"
    /\ err = ""
    /\ inst_flag = "none"
    /\ mid = FALSE
    /\ itime = NoneT
    /\ times = <<>>
    /\ values = <<>>
    /\ freq = 0
    /\ date_range = <<>>
    /\ iters = 0
    /\ loads = 0
    /\ out = <<>>
    /\ notes = <<>>
    /\ tag = <<>>
    /\ meta = "none"
    /\ meta_notes = [m \in MetaObjects |-> IF m = "fresh" THEN <<>> ELSE SourceNotes]
    /\ extend_times = [left |-> <<>>, right |-> <<>>]
    /\ previous = <<>>
    /\ ap_inst = Unused
    /\ calls = 0
    /\ iap = Unused
    /\ experiment = Unused
    /\ f107_files = Unused

Next ==
    \/ ValidateKp
    \/ ValidateF107
    \/ StandardKp
    \/ RecentKp
    \/ ForecastKp
    \/ StandardF107
    \/ ForecastF107
    \/ LoopExit
    \/ Overrun
    \/ Pad
    \/ Save

Spec == Init /\ [][Next]_vars

-----------------------------------------------------------------------------
(* Vocabulary of the properties *)

\* the call returned
Returned == pc = "done"

\* every row a source holds: in its daily files, its named files, or resident
\* when the call was made
HeldBy(src, resident) ==
    src.disk \cup UNION {f.data : f \in src.files} \cup resident

StdRows == HeldBy(std, args.std)
RecRows == HeldBy(rec, args.rec)
FcRows == HeldBy(fc, args.fc)

\* the rows of a source that are observations, not its fill value
Observed(rows, src) == {r \in rows : r.v # src.fill}

OutRows == Range(out)

InWindow(t) == start <= t /\ t < stop

\* the time step of the routine called
Cadence == IF fn = "kp" THEN KpStep ELSE F107Day

\* the number of source arguments that are not None
Supplied == Cardinality({i \in 1..3 : <<std, rec, fc>>[i].present})

-----------------------------------------------------------------------------
(* C1 *)

\* C1: for every merge that returns, a non-fill value of the standard source
\* at a time T with start <= T < stop is the merged value at T, also when the
\* standard source had a gap before T
C1_PriorityPreference ==
    Returned =>
        \A r \in Observed(StdRows, std) : InWindow(r.t) => r \in OutRows

-----------------------------------------------------------------------------
(* C2 *)

AllRows == StdRows \cup RecRows \cup FcRows

\* C2: every value of the returned series is the output fill value or a value
\* that an input source holds at that same time stamp
C2_SingleProvenance ==
    Returned => \A r \in OutRows : r.v = fill_val \/ r \in AllRows

\* a merge that was resampled returned fill values next to source values
C2_Witness ==
    /\ Returned
    /\ NeedsResample(date_range, times)
    /\ \E r \in OutRows : r.v = fill_val /\ r \notin AllRows
    /\ \E r \in OutRows : r \in Observed(RecRows, rec)
    /\ \E r \in OutRows : r \in Observed(StdRows, std)

-----------------------------------------------------------------------------
(* C3 *)

\* C3: the returned time stamps increase by exactly the inferred cadence, and
\* a time for which no source holds a row carries the fill value
C3_Gapless ==
    Returned =>
        /\ \A i \in 1..(Len(out) - 1) : out[i + 1].t - out[i].t = freq
        /\ \A r \in OutRows : r.t \notin TimesOf(AllRows) => r.v = fill_val

\* a returned series with a slot inside it that no source had data for
C3_Witness ==
    /\ Returned
    /\ \E i \in 2..(Len(out) - 1) :
          /\ out[i].t \notin TimesOf(AllRows)
          /\ out[i].v = fill_val
          /\ out[i - 1] \in AllRows
          /\ out[i + 1] \in AllRows

-----------------------------------------------------------------------------
(* C4 *)

\* C4: the returned series starts at start, ends at the last cadence step
\* before stop, and has no time stamp outside [start, stop)
C4_ExactCoverage ==
    Returned =>
        /\ out[1].t = start
        /\ Last(out).t = stop - Cadence
        /\ \A r \in OutRows : InWindow(r.t)

-----------------------------------------------------------------------------
(* C5 *)

\* the standard source holds nothing in [T, stop)
StdSilentFrom(T) == \A r \in StdRows : ~(r.t >= T /\ r.t < stop)

\* C5: where the standard source holds nothing in [T, stop), a merged value
\* there that is not the fill value is the recent source's when it has an
\* observation at that time, else the forecast source's
C5_Fallthrough ==
    Returned =>
        \A r \in OutRows :
            (std.present /\ InWindow(r.t) /\ r.v # fill_val /\ StdSilentFrom(r.t)) =>
                IF \E q \in Observed(RecRows, rec) : q.t = r.t
                THEN r \in RecRows
                ELSE r \in FcRows

-----------------------------------------------------------------------------
(* C6 *)

\* C6: the accumulated times are strictly increasing, none twice, and all
\* lie in [start, stop)
C6_NoDoubleCounting ==
    pc = "sweep" =>
        /\ \A i \in 1..(Len(times) - 1) : times[i] < times[i + 1]
        /\ \A i \in 1..Len(times) : InWindow(times[i])

-----------------------------------------------------------------------------
(* C7 *)

\* the source arguments of the routine called that are not None
SuppliedToCall ==
    IF fn = "kp" THEN Supplied
    ELSE Cardinality({i \in 1..2 : <<std, fc>>[i].present})

\* C7: a call with fewer than two sources ends in the ValueError that asks
\* for two sources
C7_TooFewSources ==
    (pc # "validate" /\ SuppliedToCall < 2) =>
        (pc = "raised" /\ err = "ValueError:sources")

-----------------------------------------------------------------------------
(* C8 *)

\* start and stop omitted and nothing resident in any source
NothingToDerive ==
    /\ args.start = NoneT
    /\ args.stop = NoneT
    /\ args.std \cup args.rec \cup args.fc = {}

\* C8: with start and stop omitted and no resident data the call ends in the
\* ValueError that asks for loaded Instruments or times
C8_NoWindow ==
    (pc # "validate" /\ SuppliedToCall >= 2 /\ NothingToDerive) =>
        (pc = "raised" /\ err = "ValueError:window")

-----------------------------------------------------------------------------
(* C9 *)

\* C9: combine_f107 with both sources and a window, given or derived, with
\* start >= stop ends in the ValueError 'date range is zero or negative'
C9_EmptyRange ==
    (fn = "f107" /\ pc # "validate" /\ std.present /\ fc.present
        /\ start # NoneT /\ stop # NoneT /\ start >= stop) =>
        (pc = "raised" /\ err = "ValueError:range")

\* the error raised for a stop derived from the resident data
C9_Witness ==
    /\ fn = "f107"
    /\ pc = "raised"
    /\ err = "ValueError:range"
    /\ args.stop = NoneT
    /\ args.start # NoneT
    /\ start >= stop

-----------------------------------------------------------------------------
(* C10 *)

\* C10: combine_kp with two sources or more and start = stop does not raise
C10_DegenerateWindow ==
    (fn = "kp" /\ Supplied >= 2 /\ args.start # NoneT /\ args.start = args.stop) =>
        pc # "raised"

-----------------------------------------------------------------------------
(* C11 *)

\* the call ended in one of the errors of the argument validation
ValidationFailure ==
    /\ pc = "raised"
    /\ err \in {"ValueError:sources", "ValueError:window", "ValueError:range"}

\* every source holds the resident data and the notes it held when called
SourcesUntouched ==
    /\ std.data = args.std
    /\ rec.data = args.rec
    /\ fc.data = args.fc
    /\ \A m \in MetaObjects \ {"fresh"} : meta_notes[m] = SourceNotes

\* C11: when a call ends in a validation failure (too few sources, no
\* window, start >= stop) the sweep has not begun: no load was made and no
\* source's resident data or metadata has changed
C11_FailFast ==
    ValidationFailure =>
        /\ loads = 0
        /\ iters = 0
        /\ times = <<>>
        /\ SourcesUntouched

\* a range error of combine_f107 for a window whose first day the standard
\* source has on disk but not resident: the sweep would have loaded it
C11_Witness ==
    /\ ValidationFailure
    /\ err = "ValueError:range"
    /\ NeedsLoad(std, start)
    /\ LoadDateF107(std, start) # std.data
    /\ loads = 0

-----------------------------------------------------------------------------
(* C12 *)

\* start and stop were both omitted
WindowOmitted == args.start = NoneT /\ args.stop = NoneT

\* the time stamps resident in the sources when the call was made
ResidentAtCall == TimesOf(args.std \cup args.rec \cup args.fc)

\* C12: with start and stop omitted and data resident in some source, start
\* is the earliest resident time and stop the latest resident time plus one
\* cadence step (3 hours for combine_kp, a day for combine_f107)
C12_DerivedWindow ==
    (pc # "validate" /\ WindowOmitted /\ ResidentAtCall # {} /\ SuppliedToCall >= 2) =>
        /\ start = Min(ResidentAtCall)
        /\ stop = Max(ResidentAtCall) + Cadence

-----------------------------------------------------------------------------
(* C13 *)

\* some source holds an observation, not its fill value, inside the window
SomeDataInWindow ==
    \E r \in Observed(StdRows, std) \cup Observed(RecRows, rec) \cup Observed(FcRows, fc) :
        InWindow(r.t)

\* C13: when some source has data in the window, a source that offers
\* nothing at the cursor is passed over without an error, also when the
\* accumulator is still empty as a recent or forecast source is visited
C13_ExhaustedNoError ==
    (start # NoneT /\ stop # NoneT /\ SomeDataInWindow) =>
        ~(pc = "raised" /\ err = "IndexError")

-----------------------------------------------------------------------------
(* C14 *)

\* the (time, value) pairs accumulated by the sweep
Accumulated == Range(Zip(times, values))

\* the rows of a source that hold its own fill value
FillRows(rows, src) == {r \in rows : r.v = src.fill}

\* C14: no row that holds the fill value of the source it comes from is
\* accumulated by the sweep: each source is filtered by its own fill value
C14_PerSourceFill ==
    pc \in {"sweep", "pad"} =>
        \A r \in Accumulated :
            /\ r \notin FillRows(StdRows, std)
            /\ r \notin FillRows(RecRows, rec)
            /\ r \notin FillRows(FcRows, fc)

-----------------------------------------------------------------------------
(* C15 *)

\* C15: in a step of the sweep in which the active source yields rows it
\* stays the active source and the cursor moves to the last appended time
\* plus the cadence; the active source changes only in a step that yields none
C15_SourceSwitching ==
    [][(pc = "sweep" /\ pc' = "sweep" /\ times' # times) =>
           (inst_flag' = inst_flag /\ itime' = Last(times') + Cadence)]_vars

-----------------------------------------------------------------------------
(* C16 *)

\* the call is the three-source call: standard over [Jan 1, Jan 10), recent
\* over [Jan 8, Jan 12), forecast over [Jan 11, Jan 14), no window given
ThreeSources ==
    /\ fn = "kp"
    /\ std \in {[x EXCEPT !.data = std.data] : x \in ScenarioStandard}
    /\ rec \in {[x EXCEPT !.data = rec.data] : x \in ScenarioRecent}
    /\ fc \in {[x EXCEPT !.data = fc.data] : x \in ScenarioForecast}
    /\ WindowOmitted

\* the returned series is the rows of source number id at the times T
SeriesFrom(id, T) == \A i \in 1..Len(out) : out[i].t \in T => out[i].v = Val(id, out[i].t)

\* the returned series is 3-hourly from Jan 1 00:00 up to Jan 14 00:00
ContinuousToJan14 ==
    /\ Len(out) = 13 * KpDay
    /\ \A i \in 1..Len(out) : out[i].t = i - 1

\* the sources' data is resident when the call is made: the recent and the
\* forecast data all of it, the standard data at least its first day
ScenarioResident ==
    /\ args.std # {}
    /\ TimesOf(args.rec) = DaySlots(7, 11)
    /\ args.fc # {}

\* C16 as stated: the three-source call returns the 3-hourly series from
\* Jan 1 to Jan 14 with Jan 1-8 from standard, Jan 8-11 from recent and
\* Jan 11-14 from forecast
C16_AsStated ==
    (ThreeSources /\ ScenarioResident /\ Returned) =>
        /\ ContinuousToJan14
        /\ SeriesFrom(1, DaySlots(0, 7))
        /\ SeriesFrom(2, DaySlots(7, 10))
        /\ SeriesFrom(3, DaySlots(10, 13))

\* C16, amended: with the sources' data resident the three-source call
\* returns the 3-hourly series from Jan 1 to Jan 14 without a gap, each time
\* from the first source in priority order that holds it: Jan 1-10 from
\* standard, Jan 10-12 from recent, Jan 12-14 from forecast
C16_ThreeSourceMerge ==
    (ThreeSources /\ ScenarioResident) =>
        /\ pc \notin {"raised", "overrun"}
        /\ Returned =>
              /\ ContinuousToJan14
              /\ SeriesFrom(1, DaySlots(0, 9))
              /\ SeriesFrom(2, DaySlots(9, 11))
              /\ SeriesFrom(3, DaySlots(11, 13))

\* the three-source call returned, with the last standard row on Jan 9 21:00
\* followed by a recent row, and the last recent row by a forecast row
C16_Witness ==
    /\ ThreeSources
    /\ ScenarioResident
    /\ Returned
    /\ Len(out) = 13 * KpDay
    /\ out[9 * KpDay] \in StdRows /\ out[9 * KpDay + 1] \in RecRows
    /\ out[11 * KpDay] \in RecRows /\ out[11 * KpDay + 1] \in FcRows

-----------------------------------------------------------------------------
(* C17 *)

\* the padding steps have run
Padded == pc \in {"save", "done"}

\* the accumulated times as they were before the padding steps
BeforePadding ==
    SubSeq(times, Len(extend_times.left) + 1, Len(times) - Len(extend_times.right))

\* start is the first accumulated time and the last slot of the canonical
\* axis (or the last cadence step before stop) is the last accumulated time
AlreadyCovered ==
    /\ BeforePadding[1] = start
    /\ \/ Last(BeforePadding) = Last(date_range)
       \/ Last(BeforePadding) = stop - Cadence

\* C17: when the accumulated times already begin at start and end at the
\* last canonical slot, the padding steps add nothing before and nothing
\* after, and the times and values are as they were
C17_PaddingIdempotent ==
    (Padded /\ AlreadyCovered) =>
        /\ extend_times.left = <<>>
        /\ extend_times.right = <<>>
        /\ times = BeforePadding
        /\ Len(values) = Len(BeforePadding)

\* the padding ran on accumulated times that span the canonical axis
C17_Witness ==
    /\ pc = "save"
    /\ times[1] = start
    /\ Last(times) = Last(date_range)
    /\ extend_times.left = <<>>
    /\ extend_times.right = <<>>

-----------------------------------------------------------------------------
(* C18 *)

\* C18: when a merge returns, the notes in each source's own metadata are
\* what they were before the call, and the metadata of the returned series
\* is an object of its own, shared with no source
C18_SourcesFramed ==
    Returned =>
        /\ \A m \in MetaObjects \ {"fresh"} : meta_notes[m] = SourceNotes
        /\ meta = "fresh"

-----------------------------------------------------------------------------
(* C19 *)

\* the notes between "Combines data from" and ", in that order"
Segments == SubSeq(notes, 2, Len(notes) - 1)

\* the place of a source in the priority order
Rank(name) ==
    CASE name = "standard" -> 1
      [] name = "recent" -> 2
      [] name = "forecast" -> 3
      [] OTHER -> 0

\* the source argument of a name
Named(name) ==
    CASE name = "standard" -> std
      [] name = "recent" -> rec
      [] OTHER -> fc

\* the rows the source of a name holds
RowsNamed(name) ==
    CASE name = "standard" -> StdRows
      [] name = "recent" -> RecRows
      [] OTHER -> FcRows

\* no accumulated row is a row of the source of that name
YieldedNothing(name) ==
    \A r \in Range(Zip(times, values)) : r \notin RowsNamed(name)

\* C19: the notes of a returned merge are a sequence of whole segments
\* ' the <name> source (<date> to <date>)': every closing date follows its
\* own opening, a source has at most one segment, the segments are in
\* priority order and name supplied sources, and the two dates of a source
\* that yielded nothing are equal
C19_NotesWellFormed ==
    Returned =>
        /\ notes[1].kind = "head"
        /\ Last(notes).kind = "tail"
        /\ \A i \in 1..Len(Segments) :
              Segments[i].kind = IF i % 2 = 1 THEN "open" ELSE "close"
        /\ Len(Segments) % 2 = 0
        /\ \A i, j \in 1..Len(Segments) :
              (i < j /\ Segments[i].kind = "open" /\ Segments[j].kind = "open") =>
                  Rank(Segments[i].name) < Rank(Segments[j].name)
        /\ \A i \in 1..Len(Segments) :
              Segments[i].kind = "open" => Named(Segments[i].name).present
        /\ \A i \in 1..(Len(Segments) - 1) :
              (Segments[i].kind = "open" /\ YieldedNothing(Segments[i].name)) =>
                  Segments[i + 1].date = Segments[i].date

-----------------------------------------------------------------------------
(* C20 *)

\* the names, in priority order, of the source arguments that are not None
SuppliedNames ==
    SelectSeq(<<"standard", "recent", "forecast">>, LAMBDA n : Named(n).present)

\* C20: the tag of a series returned by combine_kp is 'combined' followed by
\* the names of all and only the sources supplied, in priority order; that of
\* combine_f107 is 'combined', the standard tag ('default' when that is
\* empty) and the forecast tag
C20_Tag ==
    Returned =>
        IF fn = "kp"
        THEN tag = <<"combined">> \o SuppliedNames
        ELSE /\ Len(tag) = 3
             /\ tag[1] = "combined"
             /\ tag[2] = (IF std.tag = "" THEN "default" ELSE std.tag)
             /\ tag[3] = fc.tag

\* a combine_kp call without the standard source returned with its tag
C20_Witness ==
    /\ Returned
    /\ fn = "kp"
    /\ ~std.present
    /\ tag = <<"combined", "recent", "forecast">>

-----------------------------------------------------------------------------
(* C24 *)

\* C24: every pass through a branch of the sweep loop that leaves the loop
\* running either strictly advances the cursor itime or retires the active
\* source, so the loop ends after finitely many iterations
C24_SweepProgress ==
    [][(pc = "sweep" /\ pc' = "sweep") =>
           (itime' > itime \/ inst_flag' # inst_flag)]_vars

\* C24, as the outcome: no call is still in its loop after MaxIter iterations
\* with the cursor where an earlier iteration had left it
C24_NoOverrun == pc # "overrun"

-----------------------------------------------------------------------------
(* C29: the merge called twice in succession *)

\* the caller keeps the series returned and calls the merge again with the
\* same sources, window and fill value: the Instruments are the caller's
\* objects, so each still holds the data the first call left resident
CallAgain ==
    /\ pc = "done"
    /\ previous = <<>>
    /\ args.start # NoneT
    /\ args.stop # NoneT
    /\ previous' = <<out>>
    /\ args' = [args EXCEPT !.std = std.data, !.rec = rec.data, !.fc = fc.data]
    /\ fill_val' = IF fn = "kp" THEN fill_val ELSE NoneV
    /\ start' = NoneT
    /\ stop' = NoneT
    /\ pc' = "validate"
    /\ inst_flag' = "none"
    /\ itime' = NoneT
    /\ times' = <<>>
    /\ values' = <<>>
    /\ freq' = 0
    /\ date_range' = <<>>
    /\ iters' = 0
    /\ loads' = 0
    /\ out' = <<>>
    /\ notes' = <<>>
    /\ tag' = <<>>
    /\ meta' = "none"
    /\ meta_notes' = [meta_notes EXCEPT !["fresh"] = <<>>]
    /\ extend_times' = [left |-> <<>>, right |-> <<>>]
    /\ UNCHANGED <<fn, std, rec, fc, err, mid, otherVars>>

NextTwice == Next \/ CallAgain

SpecTwice == Init /\ [][NextTwice]_vars

\* the second of two calls in succession has ended
SecondCallEnded ==
    /\ previous # <<>>
    /\ pc \in {"done", "raised", "overrun"}

\* C29: the second of two calls in succession with the same sources and the
\* same explicit window returns the series the first call returned
C29_SameSeriesTwice ==
    SecondCallEnded => (pc = "done" /\ out = previous[1])

-----------------------------------------------------------------------------
(* The other routines: what they share *)

\* the variables of the merge routines that the other routines leave alone:
\* they use fn, args, pc and err only
mergeState == <<std, rec, fc, start, stop, fill_val, inst_flag, mid, itime,
                times, values, freq, date_range, iters, loads, out, notes, tag,
                meta, meta_notes, extend_times, previous>>

\* no merge is under way
NoMerge ==
    /\ std = NoSource
    /\ rec = NoSource
    /\ fc = NoSource
    /\ start = NoneT
    /\ stop = NoneT
    /\ fill_val = NoneV
    /\ inst_flag = "none"
    /\ mid = FALSE
    /\ itime = NoneT
    /\ times = <<>>
    /\ values = <<>>
    /\ freq = 0
    /\ date_range = <<>>
    /\ iters = 0
    /\ loads = 0
    /\ out = <<>>
    /\ notes = <<>>
    /\ tag = <<>>
    /\ meta = "none"
    /\ meta_notes = [m \in MetaObjects |-> <<>>]
    /\ extend_times = [left |-> <<>>, right |-> <<>>]
    /\ previous = <<>>

\* None, for a name argument
NoneS == "None"

-----------------------------------------------------------------------------
(* calc_daily_Ap *)
(*                                                                         *)
(* One unit of time is 3 hours and a day is ApDay = 8 units, day d being   *)
(* the slots 8d .. 8d+7; the slot of 21:00 is the last of its day.  A      *)
(* value is a quotient [num, den] of whole numbers: a sample v is v/1, a   *)
(* mean of n samples is their sum over n, and nan is 0/0.  The Instrument  *)
(* is a record: index (the times of the rows), data (for each column, the  *)
(* value at each time of the index) and meta (for each column, its         *)
(* metadata).                                                              *)

\* pds.DateOffset(hours=3)
ThreeHours == 1

\* window='1D'
ApDay == 8

\* min_periods=8
MinPeriods == 8

Quot(n, d) == [num |-> n, den |-> d]

\* np.nan
NaNQ == Quot(0, 0)

IsNaNQ(x) == x.den = 0

\* the sum of the samples col[t], t in S
RECURSIVE SumOver(_, _)
SumOver(col, S) ==
    IF S = {} THEN 0
    ELSE LET t == CHOOSE u \in S : TRUE
         IN  col[t].num + SumOver(col, S \ {t})

\* tt.hour == 21
Hour21(t) == t % ApDay = ApDay - ThreeHours

\* a window closed at both ends, [t - 1 day, t]
RollingWindowClosed(col, index, t) ==
    {u \in index : u >= t - ApDay /\ u <= t /\ ~IsNaNQ(col[u])}

\* ap_inst[ap_name].rolling(window='1D', min_periods=8).mean(): at each time
\* t of the index, the mean of the samples that are not nan in the window
\* (t - 1 day, t], or nan when there are fewer than min_periods of them
RollingWindow(col, index, t) ==
    {u \in index : u > t - ApDay /\ u <= t /\ ~IsNaNQ(col[u])}

Rolling(col, index) ==
    [t \in index |->
        LET w == RollingWindow(col, index, t)
        IN  IF Cardinality(w) >= MinPeriods
            THEN Quot(SumOver(col, w), Cardinality(w))
            ELSE NaNQ]

\* ap_pad: one nan, 3 hours before the first time of the index
PadLabel(index) == Min(index) - ThreeHours

\* ap_sel = ap_pad.combine_first(ap_mean[the rows with tt.hour == 21]): the
\* labels of both, the value of ap_pad where it is not nan, else that of
\* the running mean
ApSel(ap_mean, index) ==
    [l \in {PadLabel(index)} \cup {t \in index : Hour21(t)} |->
        IF l \in index THEN ap_mean[l] ELSE NaNQ]

\* ap_sel.resample('3H').backfill(): the 3-hourly axis from the first label
\* to the last, each label with the value of the first label of ap_sel at
\* or after it
Backfill(ap_sel) ==
    [g \in Min(DOMAIN ap_sel) .. Max(DOMAIN ap_sel) |->
        ap_sel[Min({l \in DOMAIN ap_sel : l >= g})]]

\* pds.Series(ap_data[1:], index=ap_data.index[1:]) assigned to a column:
\* the rows of the index whose time is a label of the series take its
\* value, the others are nan
DailyColumn(ap_data, index) ==
    [t \in index |->
        IF t \in DOMAIN ap_data /\ t # Min(DOMAIN ap_data)
        THEN ap_data[t] ELSE NaNQ]

\* ap_inst[name] = column
SetColumn(data, name, column) ==
    [c \in DOMAIN data \cup {name} |-> IF c = name THEN column ELSE data[c]]

\* the metadata written for the running mean and for the daily mean
RunningMeta(m, ap_name, running_name) ==
    [units |-> "", name |-> running_name, desc |-> "running daily Ap index",
     plot |-> "24-h average ap", axis |-> "24-h average ap",
     scale |-> "linear", min |-> 0, max |-> 400, fill |-> m[ap_name].fill,
     notes |-> "24-h running average of 3-hourly ap indices"]

DailyMeta(m, ap_name) ==
    [units |-> "", name |-> "Ap", desc |-> "daily Ap index", plot |-> "Ap",
     axis |-> "Ap", scale |-> "linear", min |-> 0, max |-> 400,
     fill |-> m[ap_name].fill,
     notes |-> "Ap daily mean calculated from 3-hourly ap indices"]

\* the Instrument after the running mean is saved (running_name is not None)
WithRunning(inst, ap_name, running_name) ==
    IF running_name = NoneS THEN inst
    ELSE [inst EXCEPT
            !.data = SetColumn(inst.data, running_name,
                               Rolling(inst.data[ap_name], inst.index)),
            !.meta = SetColumn(inst.meta, running_name,
                               RunningMeta(inst.meta, ap_name, running_name))]

\* the Instrument after the daily mean is saved
WithDaily(inst, ap_mean, ap_name, daily_name) ==
    [inst EXCEPT
        !.data = SetColumn(inst.data, daily_name,
                     DailyColumn(Backfill(ApSel(ap_mean, inst.index)), inst.index)),
        !.meta = SetColumn(inst.meta, daily_name, DailyMeta(inst.meta, ap_name))]

\* how many times the routine is called on the same Instrument
MaxCalls == 2

\* calc_daily_Ap with the running mean saved ahead of the test on daily_name
CalcDailyApRunningFirst ==
    /\ fn = "calc_daily_Ap"
    /\ pc \in {"call", "done", "raised"}
    /\ calls < MaxCalls
    /\ calls' = calls + 1
    /\ LET a == args.ap_name
           d == args.daily_name
           r == args.running_name
       IN  IF a \notin DOMAIN ap_inst.data
           THEN /\ pc' = "raised"
                /\ err' = "ValueError"
                /\ UNCHANGED ap_inst
           ELSE IF d \in DOMAIN ap_inst.data
           THEN /\ pc' = "raised"
                /\ err' = "ValueError"
                /\ ap_inst' = WithRunning(ap_inst, a, r)
           ELSE /\ pc' = "done"
                /\ err' = ""
                /\ ap_inst' = WithDaily(WithRunning(ap_inst, a, r),
                                        Rolling(ap_inst.data[a], ap_inst.index),
                                        a, d)
    /\ UNCHANGED <<fn, args, mergeState, iap, experiment, f107_files>>

\* calc_daily_Ap(ap_inst, ap_name, daily_name, running_name)
CalcDailyAp ==
    /\ fn = "calc_daily_Ap"
    /\ pc \in {"call", "done", "raised"}
    /\ calls < MaxCalls
    /\ calls' = calls + 1
    /\ LET a == args.ap_name
           d == args.daily_name
           r == args.running_name
       IN  IF a \notin DOMAIN ap_inst.data \/ d \in DOMAIN ap_inst.data
           THEN /\ pc' = "raised"
                /\ err' = "ValueError"
                /\ UNCHANGED ap_inst
           ELSE /\ pc' = "done"
                /\ err' = ""
                /\ ap_inst' = WithDaily(WithRunning(ap_inst, a, r),
                                        Rolling(ap_inst.data[a], ap_inst.index),
                                        a, d)
    /\ UNCHANGED <<fn, args, mergeState, iap, experiment, f107_files>>

\* the Instruments of the catalogue: three days of 3-hourly rows, each day
\* whole, cut short, with a row missing, or absent
ApIndexes ==
    {d0 \cup d1 \cup d2 :
        d0 \in {0 .. 7, 3 .. 7, {}},
        d1 \in {8 .. 15, (8 .. 15) \ {11}, 8 .. 14, {}},
        d2 \in {16 .. 23, 16 .. 21, {}}} \ {{}}

\* the 3-hourly ap samples: all 2 (p = 1), varying (p = 2), varying with one
\* nan (p = 3)
ApSample(p, t) ==
    IF p = 1 THEN Quot(2, 1)
    ELSE IF p = 3 /\ t = 10 THEN NaNQ
    ELSE Quot((5 * t) % 11, 1)

\* the metadata a column has before the call
ColumnMeta(c) ==
    [units |-> "", name |-> c, desc |-> c, plot |-> c, axis |-> c,
     scale |-> "linear", min |-> 0, max |-> IF c = "Kp" THEN 9 ELSE 400,
     fill |-> -1, notes |-> ""]

ApInstruments ==
    {[index |-> ix,
      data |-> [c \in {"3hr_ap", "Kp"} |->
                   [t \in ix |-> IF c = "Kp" THEN Quot(t % 3, 1) ELSE ApSample(p, t)]],
      meta |-> [c \in {"3hr_ap", "Kp"} |-> ColumnMeta(c)]] :
        ix \in ApIndexes, p \in 1 .. 3}

ApArguments ==
    [ap_name : {"3hr_ap", "ap"},
     daily_name : {"Ap", "Kp"},
     running_name : {NoneS, "running_Ap", "Kp", "3hr_ap"}]

InitAp ==
    /\ fn = "calc_daily_Ap"
    /\ ap_inst \in ApInstruments
    /\ args \in ApArguments
    /\ calls = 0
    /\ pc = "call"
    /\ err = ""
    /\ NoMerge
    /\ iap = Unused
    /\ experiment = Unused
    /\ f107_files = Unused

SpecAp == InitAp /\ [][CalcDailyAp]_vars

-----------------------------------------------------------------------------
(* C21 *)

\* the columns of the Instrument
Columns == DOMAIN ap_inst.data

\* the call about to be made must fail: ap_name is not a column, or
\* daily_name already is one
MustFail == args.ap_name \notin Columns \/ args.daily_name \in Columns

\* C21: a call of calc_daily_Ap made when ap_name is not a column or
\* daily_name already is one (as in a second call with the same daily_name
\* after a successful one) raises ValueError and leaves the columns, the
\* values and the metadata of the Instrument as they were
C21_FailUnchanged ==
    [][(fn = "calc_daily_Ap" /\ (MustFail \/ pc = "done")) =>
           (pc' = "raised" /\ err' = "ValueError" /\ ap_inst' = ap_inst)]_vars

\* a second call with the same daily_name failed after the first had saved
\* the daily and the running mean
C21_Witness ==
    /\ fn = "calc_daily_Ap"
    /\ calls = 2
    /\ pc = "raised"
    /\ err = "ValueError"
    /\ args.running_name = "running_Ap"
    /\ {"Ap", "running_Ap"} \subseteq Columns
    /\ ap_inst.meta["Ap"].desc = "daily Ap index"

-----------------------------------------------------------------------------
(* C22 *)

ApDays == 0 .. 2

\* the eight 3-hourly slots of calendar day d
SlotsOf(d) == (d * ApDay) .. (d * ApDay + ApDay - 1)

\* the Instrument holds all eight samples of day d
CompleteDay(d) ==
    \A t \in SlotsOf(d) :
        t \in ap_inst.index /\ ~IsNaNQ(ap_inst.data[args.ap_name][t])

\* C22: after a successful call of calc_daily_Ap, at each of the eight slots
\* of every calendar day that has all eight 3-hourly samples, daily_name
\* holds the mean of those eight samples and of no other
C22_DailyMean ==
    [][(fn = "calc_daily_Ap" /\ pc' = "done") =>
           \A d \in ApDays :
               CompleteDay(d) =>
                   \A t \in SlotsOf(d) :
                       ap_inst'.data[args.daily_name][t] =
                           Quot(SumOver(ap_inst.data[args.ap_name], SlotsOf(d)),
                                Cardinality(SlotsOf(d)))]_vars

\* a day of eight samples equal to 2 has the daily value 2 at its slots, and
\* so has the whole day after it
C22_Witness ==
    /\ fn = "calc_daily_Ap"
    /\ pc = "done"
    /\ 0 .. 15 \subseteq ap_inst.index
    /\ \A t \in 0 .. 15 : ap_inst.data["3hr_ap"][t] = Quot(2, 1)
    /\ \A t \in 0 .. 15 : ap_inst.data["Ap"][t] = Quot(16, 8)

-----------------------------------------------------------------------------
(* C23 *)

\* C23: after a successful call of calc_daily_Ap, daily_name is nan at every
\* slot of a calendar day that has fewer than eight samples in the 24 hours
\* ending at its 21:00 slot
C23_IncompleteDayMissing ==
    [][(fn = "calc_daily_Ap" /\ pc' = "done") =>
           \A d \in ApDays :
               ~CompleteDay(d) =>
                   \A t \in SlotsOf(d) \cap ap_inst.index :
                       IsNaNQ(ap_inst'.data[args.daily_name][t])]_vars

\* the same for the days that have their 21:00 row
C23_WithLastRow ==
    [][(fn = "calc_daily_Ap" /\ pc' = "done") =>
           \A d \in ApDays :
               (~CompleteDay(d) /\ d * ApDay + ApDay - 1 \in ap_inst.index) =>
                   \A t \in SlotsOf(d) \cap ap_inst.index :
                       IsNaNQ(ap_inst'.data[args.daily_name][t])]_vars

-----------------------------------------------------------------------------
(* C30 *)

\* the columns a successful call is to add
Added ==
    {args.daily_name} \cup
        (IF args.running_name = NoneS THEN {} ELSE {args.running_name})

\* C30: a successful call of calc_daily_Ap leaves every column that existed
\* before it, and the metadata of that column, unchanged, and adds only the
\* daily_name column and, when running_name is given, the running_name column
C30_Frame ==
    [][(fn = "calc_daily_Ap" /\ pc' = "done") =>
           /\ DOMAIN ap_inst'.data = Columns \cup Added
           /\ DOMAIN ap_inst'.meta = DOMAIN ap_inst.meta \cup Added
           /\ \A c \in Columns :
                 /\ ap_inst'.data[c] = ap_inst.data[c]
                 /\ ap_inst'.meta[c] = ap_inst.meta[c]]_vars

\* the same for the calls whose running_name is None or a new name
C30_NewNames ==
    [][(fn = "calc_daily_Ap" /\ pc' = "done" /\ args.running_name \notin Columns) =>
           /\ DOMAIN ap_inst'.data = Columns \cup Added
           /\ DOMAIN ap_inst'.meta = DOMAIN ap_inst.meta \cup Added
           /\ \A c \in Columns :
                 /\ ap_inst'.data[c] = ap_inst.data[c]
                 /\ ap_inst'.meta[c] = ap_inst.meta[c]]_vars

-----------------------------------------------------------------------------
(* demeter_iap.clean *)
(*                                                                         *)
(* The Instrument is a record: clean_level and data, the rows in index     *)
(* order, each row giving the value of the three density columns.          *)

\* oplus_thresh = 5.0e2
oplus_thresh == 500

\* h > oplus * 0.02, in whole numbers
AboveFraction(h, oplus) == h * 100 > oplus * 2

\* nions[i] once the loop has passed row i
Nions(row) ==
    IF row["O+_density"] >= oplus_thresh
    THEN 1 + (IF AboveFraction(row["H+_density"], row["O+_density"]) THEN 1 ELSE 0)
           + (IF AboveFraction(row["He+_density"], row["O+_density"]) THEN 1 ELSE 0)
    ELSE 0

\* the rows at which the loop assigns idx: those that reach the threshold
Assigning(data) ==
    {i \in 1 .. Len(data) : data[i]["O+_density"] >= oplus_thresh}

\* idx, = np.where(nions > 1) as assigned at row k: nions is still zero
\* after row k
WhereAt(data, k) == {j \in 1 .. k : Nions(data[j]) > 1}

\* iap[idx] for an array of positions: the rows at these positions, in order
Take(data, idx) ==
    LET F[i \in 0 .. Len(data)] ==
            IF i = 0 THEN <<>>
            ELSE IF i \in idx THEN Append(F[i - 1], data[i]) ELSE F[i - 1]
    IN  F[Len(data)]

\* the first statement of clean: the fallback for 'dusty' and 'dirty'; the
\* call ''.join(a, b) that builds the message raises TypeError, before the
\* level is set
CleanFallback ==
    /\ fn = "clean"
    /\ pc = "call"
    /\ IF iap.clean_level \in {"dusty", "dirty"}
       THEN /\ pc' = "raised"
            /\ err' = "TypeError"
       ELSE /\ pc' = "select"
            /\ UNCHANGED err
    /\ UNCHANGED <<fn, args, iap, mergeState, ap_inst, calls, experiment, f107_files>>

\* the rest of clean: the selection of the rows.  idx is a local that only
\* the rows reaching the threshold assign; iap[idx] with idx unassigned
\* raises UnboundLocalError
CleanSelect ==
    /\ fn = "clean"
    /\ pc = "select"
    /\ IF iap.clean_level = "clean"
       THEN IF Assigning(iap.data) = {}
            THEN /\ pc' = "raised"
                 /\ err' = "UnboundLocalError"
                 /\ UNCHANGED iap
            ELSE /\ pc' = "done"
                 /\ iap' = [iap EXCEPT !.data =
                               Take(iap.data, WhereAt(iap.data, Max(Assigning(iap.data))))]
                 /\ UNCHANGED err
       ELSE /\ pc' = "done"
            /\ iap' = [iap EXCEPT !.data = Take(iap.data, 1 .. Len(iap.data))]
            /\ UNCHANGED err
    /\ UNCHANGED <<fn, args, mergeState, ap_inst, calls, experiment, f107_files>>

\* the longest table of the catalogue
MaxRows == 2

\* the rows of the catalogue: O+ below, at and above the threshold, H+ and
\* He+ below and above 2 % of it
IapRows ==
    {[c \in {"O+_density", "H+_density", "He+_density"} |->
         IF c = "O+_density" THEN o ELSE IF c = "H+_density" THEN h ELSE he] :
        o \in {100, 500, 1000}, h \in {5, 15, 25}, he \in {5, 25}}

IapTables == UNION {[1 .. n -> IapRows] : n \in 0 .. MaxRows}

InitClean ==
    /\ fn = "clean"
    /\ iap \in [clean_level : {"clean", "dusty", "dirty", "none"}, data : IapTables]
    /\ args = iap
    /\ pc = "call"
    /\ err = ""
    /\ NoMerge
    /\ ap_inst = Unused
    /\ calls = 0
    /\ experiment = Unused
    /\ f107_files = Unused

NextClean ==
    \/ CleanFallback
    \/ CleanSelect

SpecClean == InitClean /\ [][NextClean]_vars

-----------------------------------------------------------------------------
(* C25 *)

\* the call of clean has ended
CleanEnded == fn = "clean" /\ pc \in {"done", "raised"}

\* at least two ion species are significant in the row
TwoIons(row) ==
    /\ row["O+_density"] >= oplus_thresh
    /\ \/ AboveFraction(row["H+_density"], row["O+_density"])
       \/ AboveFraction(row["He+_density"], row["O+_density"])

\* C25: at level 'clean', clean returns and retains exactly the rows whose O+
\* density reaches 5.0e2 and whose H+ or He+ density exceeds 2 % of it, for
\* every table; at a level other than 'clean', 'dusty' and 'dirty' it
\* retains all rows
C25_CleanFilter ==
    (CleanEnded /\ args.clean_level \notin {"dusty", "dirty"}) =>
        /\ pc = "done"
        /\ iap.data = IF args.clean_level = "clean"
                      THEN SelectSeq(args.data, TwoIons)
                      ELSE args.data

\* the same for the tables in which a row reaches the threshold
C25_SomeRowReaches ==
    (CleanEnded /\ args.clean_level \notin {"dusty", "dirty"}
                /\ (args.clean_level = "clean" => Assigning(args.data) # {})) =>
        /\ pc = "done"
        /\ iap.data = IF args.clean_level = "clean"
                      THEN SelectSeq(args.data, TwoIons)
                      ELSE args.data

-----------------------------------------------------------------------------
(* C26 *)

\* C26: called at level 'dusty' or 'dirty', clean returns, has set the
\* level to 'clean' and has applied the filter of that level
C26_Fallback ==
    (CleanEnded /\ args.clean_level \in {"dusty", "dirty"}) =>
        /\ pc = "done"
        /\ iap.clean_level = "clean"
        /\ iap.data = SelectSeq(args.data, TwoIons)

-----------------------------------------------------------------------------
(* demeter_iap.load_experiment_data *)
(*                                                                         *)
(* A byte is a number in 0 .. 255, a byte string the sequence of its       *)
(* bytes, and a text string the sequence of its characters.  Python counts *)
(* positions from 0: chunk[a:b] is SubSeq(chunk, a + 1, b) and chunk[a] is *)
(* chunk[a + 1] here.  The state of a call is the record experiment: the   *)
(* content of the file, the chunk read, the locals data, data_names,       *)
(* data_units and i, the position in exp_data of the loop over the names,  *)
(* the dictionary returned, and the ranges of the chunk read so far.       *)

\* fhandle.read(108)
RecordLen == 108

\* chunk[a:b]
Slice(s, a, b) == SubSeq(s, a + 1, IF b < Len(s) THEN b ELSE Len(s))

\* codecs.encode(c, 'hex') of one byte: its two hexadecimal digits
HexDigits ==
    <<"0", "1", "2", "3", "4", "5", "6", "7", "8", "9", "a", "b", "c", "d", "e", "f">>

HexEncode(b) == <<HexDigits[(b \div 16) + 1], HexDigits[(b % 16) + 1]>>

\* int(h, 16) of two hexadecimal digits
HexValue(d) == (CHOOSE k \in 1 .. 16 : HexDigits[k] = d) - 1

IntBase16(h) == HexValue(h[1]) * 16 + HexValue(h[2])

\* demeter_methods.bytes_to_float of four bytes: the single-precision number
\* they spell, most significant byte first, as its sign bit, its 8 exponent
\* bits and its 23 fraction bits
bytes_to_float(b) ==
    [sign |-> b[1] \div 128,
     exponent |-> (b[1] % 128) * 2 + (b[2] \div 128),
     fraction |-> ((b[2] % 128) * 256 + b[3]) * 256 + b[4]]

\* 'status_flag_{:02d}'.format(i)
StatusFlagName(i) ==
    <<"s", "t", "a", "t", "u", "s", "_", "f", "l", "a", "g", "_">>
        \o <<HexDigits[(i \div 10) + 1], HexDigits[(i % 10) + 1]>>

TimeResolutionName == <<"t", "i", "m", "e", "_", "r", "e", "s", "o", "l", "u", "t", "i", "o", "n">>

exp_data ==
    <<<<"H", "+", "_", "d", "e", "n", "s", "i", "t", "y">>,
      <<"H", "e", "+", "_", "d", "e", "n", "s", "i", "t", "y">>,
      <<"O", "+", "_", "d", "e", "n", "s", "i", "t", "y">>,
      <<"I", "o", "n", "_", "t", "e", "m", "p", "e", "r", "a", "t", "u", "r", "e">>,
      <<"i", "v", "_", "O", "z">>,
      <<"i", "v", "_", "n", "e", "g", "O", "z", "_", "a", "n", "g", "l", "e">>,
      <<"i", "v", "_", "x", "O", "y", "_", "O", "x", "_", "a", "n", "g", "l", "e">>,
      <<"s", "a", "t", "e", "l", "l", "i", "t", "e", "_", "p", "o", "t", "e", "n", "t", "i", "a", "l">>>>

\* dname.find(sub): the first position, from 0, at which sub occurs in
\* dname, or -1
Find(dname, sub) ==
    LET at == {p \in 0 .. Len(dname) - Len(sub) :
                  SubSeq(dname, p + 1, p + Len(sub)) = sub}
    IN  IF at = {} THEN -1 ELSE Min(at)

\* the range of the chunk that holds the units of dname, <<>> when no
\* branch applies
UnitsRange(dname) ==
    IF Find(dname, <<"d", "e", "n", "s", "i", "t", "y">>) > 0 THEN <<46, 52>>
    ELSE IF Find(dname, <<"t", "e", "m", "p", "e", "r", "a", "t", "u", "r", "e">>) > 0 THEN <<52, 58>>
    ELSE IF Find(dname, <<"p", "o", "t", "e", "n", "t", "i", "a", "l">>) > 0 THEN <<64, 70>>
    ELSE IF Find(dname, <<"a", "n", "g", "l", "e">>) > 0 THEN <<70, 76>>
    ELSE IF Find(dname, <<"i", "v">>) = 0 THEN <<58, 64>>
    ELSE <<>>

\* d[key] = value, for a dictionary d
SetItem(d, key, value) ==
    [k \in DOMAIN d \cup {key} |-> IF k = key THEN value ELSE d[k]]

\* the variables load_experiment_data leaves alone
decodeFrame == <<fn, args, mergeState, ap_inst, calls, iap, f107_files>>

\* chunk = fhandle.read(108), and the three empty containers
ReadChunk ==
    /\ fn = "load_experiment_data"
    /\ pc = "call"
    /\ experiment' = [experiment EXCEPT
           !.chunk = Slice(experiment.fhandle, 0, RecordLen),
           !.i = 0]
    /\ pc' = "flags"
    /\ UNCHANGED <<err, decodeFrame>>

\* one pass of the loop over the 32 house-keeping and status flags
LoadFlag ==
    /\ fn = "load_experiment_data"
    /\ pc = "flags"
    /\ LET e == experiment
           name == StatusFlagName(e.i)
       IN  IF 10 + e.i >= Len(e.chunk)
           THEN /\ pc' = "raised"
                /\ err' = "IndexError"
                /\ UNCHANGED experiment
           ELSE /\ experiment' = [e EXCEPT
                      !.data = Append(e.data, IntBase16(HexEncode(e.chunk[10 + e.i + 1]))),
                      !.data_names = Append(e.data_names, name),
                      !.data_units = SetItem(e.data_units, name, <<"N", "/", "A">>),
                      !.reads = e.reads \cup {<<10 + e.i, 10 + e.i + 1>>},
                      !.i = e.i + 1]
                /\ pc' = IF e.i + 1 < 32 THEN "flags" ELSE "time_resolution"
                /\ UNCHANGED err
    /\ UNCHANGED decodeFrame

\* the time resolution read one byte early, from chunk[41:45]
LoadTimeResolutionEarly ==
    /\ fn = "load_experiment_data"
    /\ pc = "time_resolution"
    /\ LET e == experiment
       IN  experiment' = [e EXCEPT
               !.data = Append(e.data, bytes_to_float(Slice(e.chunk, 41, 45))),
               !.data_names = Append(e.data_names, TimeResolutionName),
               !.data_units = SetItem(e.data_units, TimeResolutionName, <<"s">>),
               !.reads = e.reads \cup {<<41, 45>>},
               !.i = 76]
    /\ pc' = "data"
    /\ UNCHANGED <<err, decodeFrame>>

\* the time resolution, and i = 76
LoadTimeResolution ==
    /\ fn = "load_experiment_data"
    /\ pc = "time_resolution"
    /\ LET e == experiment
       IN  experiment' = [e EXCEPT
               !.data = Append(e.data, bytes_to_float(Slice(e.chunk, 42, 46))),
               !.data_names = Append(e.data_names, TimeResolutionName),
               !.data_units = SetItem(e.data_units, TimeResolutionName, <<"s">>),
               !.reads = e.reads \cup {<<42, 46>>},
               !.i = 76]
    /\ pc' = "data"
    /\ UNCHANGED <<err, decodeFrame>>

\* one pass of while i < 108; after the last, data_names.extend(exp_data)
LoadData ==
    /\ fn = "load_experiment_data"
    /\ pc = "data"
    /\ LET e == experiment
           last == ~(e.i + 4 < RecordLen)
       IN  experiment' = [e EXCEPT
               !.data = Append(e.data, bytes_to_float(Slice(e.chunk, e.i, e.i + 4))),
               !.reads = e.reads \cup {<<e.i, e.i + 4>>},
               !.i = e.i + 4,
               !.data_names = IF last THEN e.data_names \o exp_data ELSE e.data_names]
    /\ pc' = IF experiment.i + 4 < RecordLen THEN "data" ELSE "units"
    /\ UNCHANGED <<err, decodeFrame>>

\* one pass of for dname in exp_data
LoadUnits ==
    /\ fn = "load_experiment_data"
    /\ pc = "units"
    /\ LET e == experiment
           dname == exp_data[e.dname]
           r == UnitsRange(dname)
       IN  experiment' = [e EXCEPT
               !.data_units = IF r = <<>> THEN e.data_units
                              ELSE SetItem(e.data_units, dname, Slice(e.chunk, r[1], r[2])),
               !.reads = IF r = <<>> THEN e.reads ELSE e.reads \cup {r},
               !.dname = e.dname + 1]
    /\ pc' = IF experiment.dname < Len(exp_data) THEN "units" ELSE "meta"
    /\ UNCHANGED <<err, decodeFrame>>

\* meta = {'data type': chunk[0:10], ...} and return data, meta
ReturnData ==
    /\ fn = "load_experiment_data"
    /\ pc = "meta"
    /\ LET e == experiment
       IN  experiment' = [e EXCEPT
               !.meta = [data_type |-> Slice(e.chunk, 0, 10),
                         data_names |-> e.data_names,
                         data_units |-> e.data_units],
               !.reads = e.reads \cup {<<0, 10>>}]
    /\ pc' = "done"
    /\ UNCHANGED <<err, decodeFrame>>

\* the files of the catalogue: whole records of several contents, a file
\* with more than one record, and a file that ends inside the flags
FileBytes ==
    {[k \in 1 .. n |-> (a * (k - 1) + b) % 256] :
        n \in {RecordLen, RecordLen + 12, 40}, a \in {1, 7, 37}, b \in {0, 200}}

InitDecode ==
    /\ fn = "load_experiment_data"
    /\ \E f \in FileBytes :
          experiment = [fhandle |-> f, chunk |-> <<>>, data |-> <<>>,
                        data_names |-> <<>>, data_units |-> <<>>, i |-> 0,
                        dname |-> 1, meta |-> <<>>, reads |-> {}]
    /\ args = <<>>
    /\ pc = "call"
    /\ err = ""
    /\ NoMerge
    /\ ap_inst = Unused
    /\ calls = 0
    /\ iap = Unused
    /\ f107_files = Unused

NextDecode ==
    \/ ReadChunk
    \/ LoadFlag
    \/ LoadTimeResolution
    \/ LoadData
    \/ LoadUnits
    \/ ReturnData

SpecDecode == InitDecode /\ [][NextDecode]_vars

-----------------------------------------------------------------------------
(* C27 *)

\* load_experiment_data has returned, having read a whole record
Decoded ==
    /\ fn = "load_experiment_data"
    /\ pc = "done"
    /\ Len(experiment.chunk) = RecordLen

\* the bytes of a range <<a, b>> of the chunk: a .. b - 1
BytesOf(r) == r[1] .. (r[2] - 1)

-----------------------------------------------------------------------------
(* sw_f107: list_files and load for tag '' *)
(*                                                                         *)
(* A day is its number in the year, 1 January being 0; the year is one of  *)
(* 365 days and the listing covers its first four months.  A file name is  *)
(* the sequence of its characters.  The state is the record f107_files:    *)
(* the months that have a file in data_path, the rows of each file, the    *)
(* Series out returned by list_files (for each day of its index, the       *)
(* entry), and the locals of load: the entry passed, date and result.      *)

Year == 2009

Months == 1 .. 4

\* the number of days of each month
MonthLen == <<31, 28, 31, 30>>

RECURSIVE MonthFirst(_)
\* the first day of month m
MonthFirst(m) == IF m = 1 THEN 0 ELSE MonthFirst(m - 1) + MonthLen[m - 1]

\* the index label + pds.DateOffset(months=1) - pds.DateOffset(days=1), for
\* the first day of month m: the last day of the month
MonthLast(m) == MonthFirst(m) + MonthLen[m] - 1

MonthOf(d) == CHOOSE m \in Months : MonthFirst(m) <= d /\ d <= MonthLast(m)

DayOfMonth(d) == d - MonthFirst(MonthOf(d)) + 1

DecimalDigits == <<"0", "1", "2", "3", "4", "5", "6", "7", "8", "9">>

\* '{:02d}' and '{:04d}'
Fmt02(n) == <<DecimalDigits[(n \div 10) + 1], DecimalDigits[(n % 10) + 1]>>

Fmt04(n) == Fmt02(n \div 100) \o Fmt02(n % 100)

\* 'f107_monthly_{year:04d}-{month:02d}.txt'
MonthlyName(m) ==
    <<"f", "1", "0", "7", "_", "m", "o", "n", "t", "h", "l", "y", "_">>
        \o Fmt04(Year) \o <<"-">> \o Fmt02(m) \o <<".", "t", "x", "t">>

\* index.strftime('%Y-%m-%d')
Strftime(d) ==
    Fmt04(Year) \o <<"-">> \o Fmt02(MonthOf(d)) \o <<"-">> \o Fmt02(DayOfMonth(d))

\* int() of a string of decimal digits
DigitValue(c) == (CHOOSE k \in 1 .. 10 : DecimalDigits[k] = c) - 1

RECURSIVE ParseInt(_)
ParseInt(s) ==
    IF s = <<>> THEN 0
    ELSE ParseInt(SubSeq(s, 1, Len(s) - 1)) * 10 + DigitValue(s[Len(s)])

\* pysat.datetime.strptime(s, '%Y-%m-%d'): the day that s names
Strptime(s) ==
    MonthFirst(ParseInt(SubSeq(s, 6, 7))) + ParseInt(SubSeq(s, 9, 10)) - 1

\* s[-n:] and s[0:-n]
LastChars(s, n) == SubSeq(s, Len(s) - n + 1, Len(s))

DropChars(s, n) == SubSeq(s, 1, Len(s) - n)

\* out.asfreq('D', 'pad') of the monthly list with the last day of the last
\* month added: every day from the first label to the last, each with the
\* file of the latest label at or before it; then the date is appended
Listing(months) ==
    [d \in MonthFirst(Min(months)) .. MonthLast(Max(months)) |->
        MonthlyName(Max({m \in months : MonthFirst(m) <= d}))
            \o <<"_">> \o Strftime(d)]

\* the variables list_files and load leave alone
filesFrame == <<fn, args, mergeState, ap_inst, calls, iap, experiment>>

\* list_files(tag='', data_path=...)
list_files ==
    /\ fn = "sw_f107"
    /\ pc = "call"
    /\ f107_files' = [f107_files EXCEPT
           !.out = IF f107_files.months = {} THEN <<>>
                   ELSE Listing(f107_files.months)]
    /\ pc' = "listed"
    /\ UNCHANGED <<err, filesFrame>>

\* load(fnames, tag='') for one entry of the list: the date is parsed, then
\* pds.pds.read_csv raises AttributeError (pandas has no attribute pds)
load ==
    /\ fn = "sw_f107"
    /\ pc = "listed"
    /\ \E d \in DOMAIN f107_files.out :
          f107_files' = [f107_files EXCEPT
              !.day = d,
              !.fnames = <<f107_files.out[d]>>,
              !.date = Strptime(LastChars(f107_files.out[d], 10))]
    /\ pc' = "raised"
    /\ err' = "AttributeError"
    /\ UNCHANGED filesFrame

\* the rows of the monthly files of the catalogue: one row a day, or one
\* every other day
FileRows(m, every) ==
    {[t |-> d, v |-> 70 + d] : d \in {x \in MonthFirst(m) .. MonthLast(m) : x % every = 0}}

InitFiles ==
    /\ fn = "sw_f107"
    /\ \E months \in SUBSET Months, every \in {1, 2} :
          f107_files = [months |-> months,
                        rows |-> [m \in months |-> FileRows(m, every)],
                        out |-> <<>>, day |-> NoneT, fnames |-> <<>>,
                        date |-> NoneT, result |-> {}]
    /\ args = <<>>
    /\ pc = "call"
    /\ err = ""
    /\ NoMerge
    /\ ap_inst = Unused
    /\ calls = 0
    /\ iap = Unused
    /\ experiment = Unused

NextFiles ==
    \/ list_files
    \/ load

SpecFiles == InitFiles /\ [][NextFiles]_vars

-----------------------------------------------------------------------------
(* C28 *)

\* load was called on the entry of day f107_files.day and has ended
Loaded == fn = "sw_f107" /\ pc \in {"done", "raised"}

\* C28: for every day D from the first listed month to the last day of the
\* last listed month, list_files yields the monthly file name of D's month
\* with '_YYYY-MM-DD' of D appended, and load on that entry recovers D from
\* the last 10 characters, the monthly file name by stripping 11
\* characters, and returns the rows of that file with time in [D, D + 1 day)
C28_RoundTrip ==
    Loaded =>
        LET D == f107_files.day
            entry == f107_files.fnames[1]
        IN  /\ entry = MonthlyName(MonthOf(D)) \o <<"_">> \o Strftime(D)
            /\ pc = "done"
            /\ f107_files.date = D
            /\ DropChars(entry, 11) = MonthlyName(MonthOf(D))
            /\ MonthOf(D) \in f107_files.months
            /\ f107_files.result =
                  {r \in f107_files.rows[MonthOf(D)] : r.t >= D /\ r.t < D + 1}

\* the part of C28 that precedes read_csv: the date parsed from the last 10
\* characters of the entry is the day of the entry
C28_DateRecovered ==
    Loaded => f107_files.date = f107_files.day

\* the part of C28 about the list, when no month is missing between the
\* first and the last listed
C28_ListedContiguous ==
    (fn = "sw_f107" /\ pc = "listed" /\ f107_files.months # {}
        /\ f107_files.months = Min(f107_files.months) .. Max(f107_files.months)) =>
        /\ DOMAIN f107_files.out =
              MonthFirst(Min(f107_files.months)) .. MonthLast(Max(f107_files.months))
        /\ \A D \in DOMAIN f107_files.out :
              f107_files.out[D] = MonthlyName(MonthOf(D)) \o <<"_">> \o Strftime(D)

====
